---- MODULE Spec2Model ----
(***************************************************************************)
(* A model of the session handle of AxumSession (src/src/session.rs):      *)
(* Session::new and Session::generate_uuid as concurrent tasks over the    *)
(* shared SessionStore, and the data operations a handle forwards to it.   *)
(*                                                                         *)
(* A Uuid is modelled as a 4-bit value written as one hexadecimal digit;   *)
(* Uuid::new_v4 draws from the NumUuids highest values.  Optional values   *)
(* (Rust's Option) are sequences of length at most one.                    *)
(***************************************************************************)
EXTENDS Integers, Sequences, FiniteSets

\* ------------------------------------------------------------------ bounds
\* How many distinct values Uuid::new_v4 can draw.
NumUuids == 2

\* ------------------------------------------------------------- Option<T>
None == <<>>
Some(v) == <<v>>
IsSome(o) == Len(o) = 1
Unwrap(o) == o[1]

\* ------------------------------------------------------------------- Uuid
HexLower == <<"0","1","2","3","4","5","6","7","8","9","a","b","c","d","e","f">>
HexUpper == <<"0","1","2","3","4","5","6","7","8","9","A","B","C","D","E","F">>

\* The values Uuid::new_v4() can return.
Uuids == (16 - NumUuids)..15

\* Uuid::to_string(): the canonical, lower-case text of a Uuid.
ToString(u) == <<HexLower[u + 1]>>

\* Uuid::parse_str(): Ok for a text of the right length made of hexadecimal
\* digits of either case, Err (None after .ok()) for anything else.
ParseStr(s) ==
    IF Len(s) = 1 /\ \E i \in 1..16 : s[1] \in {HexLower[i], HexUpper[i]}
    THEN Some((CHOOSE i \in 1..16 : s[1] \in {HexLower[i], HexUpper[i]}) - 1)
    ELSE None

\* SessionID::inner(): the key under which the store and the table hold a
\* session.
Inner(id) == ToString(id)

\* The keys the cache and the table can hold.
IdStrs == {ToString(u) : u \in Uuids}

\* What a request can carry in the session cookie: nothing, the canonical
\* text of an id, the same in upper case, or text that is no Uuid.
CookieValues ==
    {None}
    \cup {Some(ToString(u)) : u \in Uuids}
    \cup {Some(<<HexUpper[u + 1]>>) : u \in Uuids}
    \cup {Some(<<"z">>), Some(<<"f", "f">>)}

\* The requests that run Session::new concurrently.
Tasks == {"t1", "t2"}

\* The handles: one per request, a clone of t1's Session and the
\* ReadOnlySession made from it.
Handles == Tasks \cup {"t1c", "t1r"}

\* The keys and the values handlers store, and the shapes they ask for.
Keys == {"k", "j"}
Types == {"int", "str"}
IntVal(n) == [s |-> <<>>, n |-> n, t |-> "int"]
StrVal(s) == [s |-> s, n |-> 0, t |-> "str"]
Values == {IntVal(5), StrVal(<<"5">>)}

VARIABLES
    cache,      \* SessionStore.inner: map from id text to SessionData
    db,         \* the table behind SessionStore.client: map from id text to record
    hasClient,  \* whether SessionStore.client is Some
    seeded,     \* the ids the cache and the table held at the start
    pc,         \* where each task is in Session::new / generate_uuid
    cookie,     \* the cookie value each request presented
    token,      \* generate_uuid's local `token`
    existsRes,  \* the outcome of the awaited client.exists call
    ret,        \* the SessionID generate_uuid returned
    session,    \* the handle Session::new built: [id, readonly]
    hist,       \* per task: which checks the call made before it finished
    lastOp,     \* the handle operation just performed, with what it returned
    written,    \* per id and key: the value of the latest set not yet removed
    taken,      \* per id and key: get_remove calls that returned a value since the latest set
    sweep,      \* the housekeeping sweep: its phase, the ids it still has to
                \* examine, those accessed since it chose them and those the
                \* latest sweep purged
    pendingDel, \* the ids whose persisted record is scheduled for deletion
    req         \* per id: what the handles asked for (destroy, storable)

genVars == <<seeded, pc, cookie, token, existsRes, ret, hist>>
dataVars == <<lastOp, written, taken>>
lifeVars == <<pendingDel, req>>
vars == <<cache, db, hasClient, session, genVars, dataVars, sweep, lifeVars>>

\* An empty SessionData: no entries, the default lifespan not yet over,
\* storable, not marked for destruction.
EmptyData ==
    [entries |-> <<>>, longterm |-> FALSE, storable |-> TRUE,
     destroy |-> FALSE, expired |-> FALSE]

\* The record the table keeps of a session: its data.
Record(data) == [entries |-> data.entries]

\* The sweep at rest.
IdleSweep == [phase |-> "idle", cand |-> {}, touched |-> {}, purged |-> {}]

\* An access to an id resets its "last seen" marker: a sweep that has chosen
\* the id and not yet examined it finds it among the ids accessed since.
Seen(sw, id) ==
    IF id \in sw.cand THEN [sw EXCEPT !.touched = @ \cup {id}] ELSE sw

\* What the handles have asked for an id no handle has acted on.
NoReq == [storable |-> TRUE, destroy |-> FALSE]

\* A map with key k set to v.
Put(m, k, v) == [x \in DOMAIN m \cup {k} |-> IF x = k THEN v ELSE m[x]]

\* generated: the call entered generate_uuid; checked: it looked an id up in
\* the cache or asked the table for it.
NoHist == [generated |-> FALSE, checked |-> FALSE]

NoOp == [op |-> "none", h |-> "t1", key |-> "k", ty |-> "int", res |-> None]

\* The store as constructed, with a cache and a table that already hold
\* some sessions, and every request about to enter Session::new.
InitGen ==
    /\ hasClient \in BOOLEAN
    /\ \E ec \in SUBSET IdStrs, ed \in SUBSET IdStrs :
          /\ cache = [k \in ec |-> EmptyData]
          /\ db = [k \in (IF hasClient THEN ed ELSE {}) |-> Record(EmptyData)]
          /\ seeded = ec \cup (IF hasClient THEN ed ELSE {})
    /\ pc = [t \in Tasks |-> "start"]
    /\ cookie = [t \in Tasks |-> None]
    /\ token = [t \in Tasks |-> None]
    /\ existsRes = [t \in Tasks |-> "none"]
    /\ ret = [t \in Tasks |-> None]
    /\ session = [h \in Handles |-> None]
    /\ hist = [t \in Tasks |-> NoHist]
    /\ lastOp = NoOp
    /\ written = [i \in IdStrs |-> [k \in Keys |-> None]]
    /\ taken = [i \in IdStrs |-> [k \in Keys |-> 0]]
    /\ sweep = IdleSweep
    /\ pendingDel = {}
    /\ req = [i \in IdStrs |-> NoReq]

\* Session::new with an existence check the code does not make: a parsed id
\* is kept only when the cache holds it.
New_Verified(t, c) ==
    /\ pc[t] = "start"
    /\ cookie' = [cookie EXCEPT ![t] = c]
    /\ LET value == IF IsSome(c) THEN ParseStr(Unwrap(c)) ELSE None
       IN  IF IsSome(value) /\ Inner(Unwrap(value)) \in DOMAIN cache
           THEN /\ session' = [session EXCEPT ![t] = Some([id |-> Unwrap(value), readonly |-> FALSE])]
                /\ pc' = [pc EXCEPT ![t] = "done"]
                /\ hist' = [hist EXCEPT ![t].checked = TRUE]
           ELSE /\ session' = session
                /\ pc' = [pc EXCEPT ![t] = "loop"]
                /\ hist' = [hist EXCEPT ![t].generated = TRUE]
    /\ UNCHANGED <<cache, db, hasClient, seeded, token, existsRes, ret, dataVars, sweep, lifeVars>>

\* Session::new, up to the call of generate_uuid: the cookie is parsed; a
\* value that parses is the handle's id, anything else asks for a fresh id.
New(t, c) ==
    /\ pc[t] = "start"
    /\ cookie' = [cookie EXCEPT ![t] = c]
    /\ LET value == IF IsSome(c) THEN ParseStr(Unwrap(c)) ELSE None
       IN  IF IsSome(value)
           THEN /\ session' = [session EXCEPT ![t] = Some([id |-> Unwrap(value), readonly |-> FALSE])]
                /\ pc' = [pc EXCEPT ![t] = "done"]
                /\ hist' = hist
           ELSE /\ session' = session
                /\ pc' = [pc EXCEPT ![t] = "loop"]
                /\ hist' = [hist EXCEPT ![t].generated = TRUE]
    /\ UNCHANGED <<cache, db, hasClient, seeded, token, existsRes, ret, dataVars, sweep, lifeVars>>

\* generate_uuid, one turn of the loop up to its first suspension point: a
\* token is drawn and looked up in the cache; a token found there is dropped
\* and the loop turns again (token then shows the candidate just dropped);
\* without a client the token is returned; with a client the task awaits
\* client.exists.
GenToken(t) ==
    /\ pc[t] = "loop"
    /\ \E u \in Uuids :
          /\ token' = [token EXCEPT ![t] = Some(u)]
          /\ hist' = [hist EXCEPT ![t].checked = TRUE]
          /\ IF ToString(u) \in DOMAIN cache
             THEN /\ pc' = pc
                  /\ ret' = ret
             ELSE IF hasClient
             THEN /\ pc' = [pc EXCEPT ![t] = "awaitExists"]
                  /\ ret' = ret
             ELSE /\ pc' = [pc EXCEPT ![t] = "returned"]
                  /\ ret' = [ret EXCEPT ![t] = Some(u)]
    /\ UNCHANGED <<cache, db, hasClient, seeded, cookie, existsRes, session, dataVars, sweep, lifeVars>>

\* client.exists(token, table) as the backend answers it: whether the table
\* holds the id, or an error.
ExistsQuery(t) ==
    /\ pc[t] = "awaitExists"
    /\ \E r \in {IF ToString(Unwrap(token[t])) \in DOMAIN db THEN "ok_true" ELSE "ok_false", "err"} :
          existsRes' = [existsRes EXCEPT ![t] = r]
    /\ pc' = [pc EXCEPT ![t] = "gotExists"]
    /\ hist' = [hist EXCEPT ![t].checked = TRUE]
    /\ UNCHANGED <<cache, db, hasClient, seeded, cookie, token, ret, session, dataVars, sweep, lifeVars>>

\* generate_uuid with unwrap_or(false) in place of unwrap(): an error is read
\* as "the table does not hold the id".
ExistsResume_ErrAsFree(t) ==
    /\ pc[t] = "gotExists"
    /\ IF existsRes[t] \in {"err", "ok_false"}
       THEN /\ pc' = [pc EXCEPT ![t] = "returned"]
            /\ ret' = [ret EXCEPT ![t] = token[t]]
            /\ UNCHANGED <<token, existsRes>>
       ELSE /\ pc' = [pc EXCEPT ![t] = "loop"]
            /\ existsRes' = [existsRes EXCEPT ![t] = "none"]
            /\ UNCHANGED <<ret, token>>
    /\ UNCHANGED <<cache, db, hasClient, seeded, cookie, session, hist, dataVars, sweep, lifeVars>>

\* generate_uuid with unwrap_or(true) in place of unwrap(): an error drops
\* the token and the loop turns again.
ExistsResume_Retry(t) ==
    /\ pc[t] = "gotExists"
    /\ IF existsRes[t] = "ok_false"
       THEN /\ pc' = [pc EXCEPT ![t] = "returned"]
            /\ ret' = [ret EXCEPT ![t] = token[t]]
            /\ UNCHANGED <<token, existsRes>>
       ELSE /\ pc' = [pc EXCEPT ![t] = "loop"]
            /\ existsRes' = [existsRes EXCEPT ![t] = "none"]
            /\ UNCHANGED <<ret, token>>
    /\ UNCHANGED <<cache, db, hasClient, seeded, cookie, session, hist, dataVars, sweep, lifeVars>>

\* generate_uuid resumed with the answer: unwrap() panics on an error, an id
\* the table holds turns the loop again, an id it does not hold is returned.
ExistsResume(t) ==
    /\ pc[t] = "gotExists"
    /\ IF existsRes[t] = "err"
       THEN /\ pc' = [pc EXCEPT ![t] = "panicked"]
            /\ token' = [token EXCEPT ![t] = None]
            /\ UNCHANGED <<ret, existsRes>>
       ELSE IF existsRes[t] = "ok_false"
       THEN /\ pc' = [pc EXCEPT ![t] = "returned"]
            /\ ret' = [ret EXCEPT ![t] = token[t]]
            /\ UNCHANGED <<token, existsRes>>
       ELSE /\ pc' = [pc EXCEPT ![t] = "loop"]
            /\ existsRes' = [existsRes EXCEPT ![t] = "none"]
            /\ UNCHANGED <<ret, token>>
    /\ UNCHANGED <<cache, db, hasClient, seeded, cookie, session, hist, dataVars, sweep, lifeVars>>

\* The future of Session::new is dropped while it is suspended on
\* client.exists: the call never resumes.
Cancel(t) ==
    /\ pc[t] \in {"awaitExists", "gotExists"}
    /\ pc' = [pc EXCEPT ![t] = "cancelled"]
    /\ token' = [token EXCEPT ![t] = None]
    /\ UNCHANGED <<cache, db, hasClient, seeded, cookie, existsRes, ret, session, hist, dataVars, sweep, lifeVars>>

\* Session::new after generate_uuid returned: the handle is built.
NewBind(t) ==
    /\ pc[t] = "returned"
    /\ session' = [session EXCEPT ![t] = Some([id |-> Unwrap(ret[t]), readonly |-> FALSE])]
    /\ pc' = [pc EXCEPT ![t] = "done"]
    /\ UNCHANGED <<cache, db, hasClient, seeded, cookie, token, existsRes, ret, hist, dataVars, sweep, lifeVars>>

\* The first access through a handle: the store looks the id up and creates
\* an empty SessionData when the cache has none.
Touch(t) ==
    /\ pc[t] = "done"
    /\ Inner(Unwrap(session[t]).id) \notin DOMAIN cache
    /\ cache' = Put(cache, Inner(Unwrap(session[t]).id), EmptyData)
    /\ UNCHANGED <<db, hasClient, seeded, pc, cookie, token, existsRes, ret, session, hist, dataVars, sweep, lifeVars>>

\* Reconciliation writes a cached session to the table.
Save(k) ==
    /\ hasClient
    /\ k \in DOMAIN cache
    /\ cache[k].storable
    /\ k \notin DOMAIN db
    /\ db' = Put(db, k, Record(cache[k]))
    /\ UNCHANGED <<cache, hasClient, seeded, pc, cookie, token, existsRes, ret, session, hist, dataVars, sweep, lifeVars>>

NextGen ==
    \/ \E t \in Tasks, c \in CookieValues : New(t, c)
    \/ \E t \in Tasks : GenToken(t)
    \/ \E t \in Tasks : ExistsQuery(t)
    \/ \E t \in Tasks : ExistsResume(t)
    \/ \E t \in Tasks : Cancel(t)
    \/ \E t \in Tasks : NewBind(t)
    \/ \E t \in Tasks : Touch(t)
    \/ \E k \in IdStrs : Save(k)

SpecGen == InitGen /\ [][NextGen]_vars

\* The executor polls every task that can run and the backend answers every
\* query: a step of Session::new that stays possible is eventually taken.
\* Nothing obliges a future to be dropped, a handle to be used or a sweep to
\* save.
FairGen ==
    \A t \in Tasks :
        /\ WF_vars(\E c \in CookieValues : New(t, c))
        /\ WF_vars(GenToken(t))
        /\ WF_vars(ExistsQuery(t))
        /\ WF_vars(ExistsResume(t))
        /\ WF_vars(NewBind(t))

FairSpecGen == InitGen /\ [][NextGen]_vars /\ FairGen

\* ------------------------------------------------------ the store's data
\* serde_json's text of a value: a number as its digit, a string between
\* double quotes.
Digits == <<"0","1","2","3","4","5","6","7","8","9">>
Encode(v) ==
    IF v.t = "int" THEN <<Digits[v.n + 1]>> ELSE <<"\"">> \o v.s \o <<"\"">>

IsDigit(c) == \E i \in 1..10 : Digits[i] = c
DigitValue(c) == (CHOOSE i \in 1..10 : Digits[i] = c) - 1

RECURSIVE Number(_)
Number(text) ==
    IF text = <<>> THEN 0
    ELSE 10 * Number(SubSeq(text, 1, Len(text) - 1)) + DigitValue(text[Len(text)])

\* serde_json::from_str::<T>(text).ok(): the value when the text has the
\* shape T asks for, None when it has not.
Decode(T, text) ==
    IF T = "int"
    THEN IF Len(text) >= 1 /\ \A i \in 1..Len(text) : IsDigit(text[i])
         THEN Some(IntVal(Number(text)))
         ELSE None
    ELSE IF Len(text) >= 2 /\ text[1] = "\"" /\ text[Len(text)] = "\""
         THEN Some(StrVal(SubSeq(text, 2, Len(text) - 1)))
         ELSE None

\* A map without key k.
Del(m, k) == [x \in DOMAIN m \ {k} |-> m[x]]

\* The entries the cache holds for an id; none when it holds no session.
Entries(c, id) == IF id \in DOMAIN c THEN c[id].entries ELSE <<>>

\* The store's lookup of an id: an empty SessionData is created when the
\* cache has none.
StoreLookup(c, id) == IF id \in DOMAIN c THEN c ELSE Put(c, id, EmptyData)

\* SessionStore::get: what it returns.
StoreGetResult(c, id, key, T) ==
    IF key \in DOMAIN Entries(c, id) THEN Decode(T, Entries(c, id)[key]) ELSE None

\* SessionStore::set, remove and clear_session_data: the cache they leave.
StoreSet(c, id, key, v) ==
    [StoreLookup(c, id) EXCEPT ![id].entries = Put(@, key, Encode(v))]
StoreRemove(c, id, key) ==
    [StoreLookup(c, id) EXCEPT ![id].entries = Del(@, key)]
StoreClear(c, id) ==
    [StoreLookup(c, id) EXCEPT ![id].entries = <<>>]

\* ------------------------------------------------- the store's lifecycle
\* SessionStore::destroy, set_longterm and set_store: the cache they leave.
\* set_longterm recomputes the expiry from now, so the session is not expired
\* when it returns.
StoreDestroy(c, id) ==
    [StoreLookup(c, id) EXCEPT ![id].destroy = TRUE]
StoreSetLongterm(c, id, b) ==
    [StoreLookup(c, id) EXCEPT ![id].longterm = b, ![id].expired = FALSE]
StoreSetStore(c, id, b) ==
    [StoreLookup(c, id) EXCEPT ![id].storable = b]

\* SessionStore::renew: the SessionData moves from the old id to the new one.
StoreRenew(c, old, new) ==
    Put(Del(StoreLookup(c, old), old), new, StoreLookup(c, old)[old])

\* The ids a renewal can allocate: those neither the cache nor the table holds.
FreeIds(c, d) == {i \in IdStrs : i \notin DOMAIN c /\ i \notin DOMAIN d}

\* The sessions of the cache that are neither expired nor to be destroyed.
Live(c) == {i \in DOMAIN c : ~c[i].expired /\ ~c[i].destroy}

\* SessionStore::count_sessions: the table's count when a backend is
\* configured, the cache's live sessions when none is.
CountSessions(c, d, client) ==
    IF client THEN Cardinality(DOMAIN d) ELSE Cardinality(Live(c))

\* The sessions a sweep chooses to purge.
PurgeCandidates(c) == {i \in DOMAIN c : c[i].expired \/ c[i].destroy}

\* The table a sweep leaves: the records scheduled for deletion and those of
\* sessions that are not storable are deleted, the live storable sessions are
\* written.
Reconciled(c, d, pd) ==
    LET stay == {i \in DOMAIN d : i \notin pd /\ (i \in DOMAIN c => c[i].storable)}
        saved == {i \in Live(c) : c[i].storable}
    IN  [i \in stay \cup saved |-> IF i \in saved THEN Record(c[i]) ELSE d[i]]

\* The ghost state of an id no session lives under.
Forget(f, id, v) == [f EXCEPT ![id] = v]
NoValues == [k \in Keys |-> None]
NoneTaken == [k \in Keys |-> 0]

\* ------------------------------------------------------------ the handles
\* impl From<Session<T>> for ReadOnlySession<T>: same store, same id.
ReadOnlyFrom(ses) == [id |-> ses.id, readonly |-> TRUE]

\* self.id.inner() of a handle.
IdOf(h) == Inner(Unwrap(session[h]).id)

IsSession(h) == IsSome(session[h]) /\ ~Unwrap(session[h]).readonly
IsReadOnly(h) == IsSome(session[h]) /\ Unwrap(session[h]).readonly

Op(op, h, key, T, res) == [op |-> op, h |-> h, key |-> key, ty |-> T, res |-> res]

\* The store once two requests have their handles, t1's Session has been
\* cloned and converted into a ReadOnlySession, and no session has data yet.
InitData ==
    /\ hasClient = FALSE
    /\ cache = <<>>
    /\ db = <<>>
    /\ seeded = {}
    /\ pc = [t \in Tasks |-> "done"]
    /\ cookie = [t \in Tasks |-> None]
    /\ token = [t \in Tasks |-> None]
    /\ existsRes = [t \in Tasks |-> "none"]
    /\ ret = [t \in Tasks |-> None]
    /\ hist = [t \in Tasks |-> NoHist]
    /\ \E u1 \in Uuids, u2 \in Uuids :
          LET s1 == [id |-> u1, readonly |-> FALSE]
          IN  session = [h \in Handles |->
                            IF h = "t1" THEN Some(s1)
                            ELSE IF h = "t1c" THEN Some(s1)
                            ELSE IF h = "t1r" THEN Some(ReadOnlyFrom(s1))
                            ELSE Some([id |-> u2, readonly |-> FALSE])]
    /\ lastOp = NoOp
    /\ written = [i \in IdStrs |-> [k \in Keys |-> None]]
    /\ taken = [i \in IdStrs |-> [k \in Keys |-> 0]]
    /\ sweep = IdleSweep
    /\ pendingDel = {}
    /\ req = [i \in IdStrs |-> NoReq]

\* The part of a get shared by Session::get and ReadOnlySession::get.
GetVia(h, key, T) ==
    /\ cache' = StoreLookup(cache, IdOf(h))
    /\ lastOp' = Op("get", h, key, T, StoreGetResult(cache, IdOf(h), key, T))
    /\ sweep' = Seen(sweep, IdOf(h))
    /\ UNCHANGED <<db, hasClient, session, genVars, written, taken, lifeVars>>

\* Session::get forwarding to the store's get_remove.
SessionGet_AsGetRemove(h, key, T) ==
    /\ IsSession(h)
    /\ cache' = StoreRemove(cache, IdOf(h), key)
    /\ lastOp' = Op("get", h, key, T, StoreGetResult(cache, IdOf(h), key, T))
    /\ sweep' = Seen(sweep, IdOf(h))
    /\ UNCHANGED <<db, hasClient, session, genVars, written, taken, lifeVars>>

\* Session::get
SessionGet(h, key, T) ==
    /\ IsSession(h)
    /\ GetVia(h, key, T)

\* ReadOnlySession::get forwarding to the store's get_remove.
ReadOnlyGet_AsGetRemove(h, key, T) ==
    /\ IsReadOnly(h)
    /\ cache' = StoreRemove(cache, IdOf(h), key)
    /\ lastOp' = Op("get", h, key, T, StoreGetResult(cache, IdOf(h), key, T))
    /\ sweep' = Seen(sweep, IdOf(h))
    /\ UNCHANGED <<db, hasClient, session, genVars, written, taken, lifeVars>>

\* ReadOnlySession::get
ReadOnlyGet(h, key, T) ==
    /\ IsReadOnly(h)
    /\ GetVia(h, key, T)

\* Session::set forwarding to the store's remove.
SessionSet_AsRemove(h, key, v) ==
    /\ IsSession(h)
    /\ cache' = StoreRemove(cache, IdOf(h), key)
    /\ lastOp' = Op("set", h, key, v.t, None)
    /\ written' = [written EXCEPT ![IdOf(h)][key] = Some(v)]
    /\ taken' = [taken EXCEPT ![IdOf(h)][key] = 0]
    /\ sweep' = Seen(sweep, IdOf(h))
    /\ UNCHANGED <<db, hasClient, session, genVars, lifeVars>>

\* Session::set
SessionSet(h, key, v) ==
    /\ IsSession(h)
    /\ cache' = StoreSet(cache, IdOf(h), key, v)
    /\ lastOp' = Op("set", h, key, v.t, None)
    /\ written' = [written EXCEPT ![IdOf(h)][key] = Some(v)]
    /\ taken' = [taken EXCEPT ![IdOf(h)][key] = 0]
    /\ sweep' = Seen(sweep, IdOf(h))
    /\ UNCHANGED <<db, hasClient, session, genVars, lifeVars>>

\* Session::remove
SessionRemove(h, key) ==
    /\ IsSession(h)
    /\ cache' = StoreRemove(cache, IdOf(h), key)
    /\ lastOp' = Op("remove", h, key, "int", None)
    /\ written' = [written EXCEPT ![IdOf(h)][key] = None]
    /\ sweep' = Seen(sweep, IdOf(h))
    /\ UNCHANGED <<db, hasClient, session, genVars, taken, lifeVars>>

\* What a get_remove adds to the count of values handed out for a key.
Took(n, res) == IF IsSome(res) /\ n < 2 THEN n + 1 ELSE n

\* Session::get_remove forwarding to the store's get: the value is returned
\* and stays.
SessionGetRemove_AsGet(h, key, T) ==
    /\ IsSession(h)
    /\ LET res == StoreGetResult(cache, IdOf(h), key, T)
       IN  /\ cache' = StoreLookup(cache, IdOf(h))
           /\ lastOp' = Op("get_remove", h, key, T, res)
           /\ taken' = [taken EXCEPT ![IdOf(h)][key] = Took(@, res)]
    /\ written' = [written EXCEPT ![IdOf(h)][key] = None]
    /\ sweep' = Seen(sweep, IdOf(h))
    /\ UNCHANGED <<db, hasClient, session, genVars, lifeVars>>

\* Session::get_remove forwarding to the store's remove: the value goes and
\* the caller gets nothing.
SessionGetRemove_AsRemove(h, key, T) ==
    /\ IsSession(h)
    /\ cache' = StoreRemove(cache, IdOf(h), key)
    /\ lastOp' = Op("get_remove", h, key, T, None)
    /\ written' = [written EXCEPT ![IdOf(h)][key] = None]
    /\ sweep' = Seen(sweep, IdOf(h))
    /\ UNCHANGED <<db, hasClient, session, genVars, taken, lifeVars>>

\* Session::get_remove: one call of the store, which reads and deletes the
\* entry in one step.
SessionGetRemove(h, key, T) ==
    /\ IsSession(h)
    /\ LET res == StoreGetResult(cache, IdOf(h), key, T)
       IN  /\ cache' = StoreRemove(cache, IdOf(h), key)
           /\ lastOp' = Op("get_remove", h, key, T, res)
           /\ taken' = [taken EXCEPT ![IdOf(h)][key] = Took(@, res)]
    /\ written' = [written EXCEPT ![IdOf(h)][key] = None]
    /\ sweep' = Seen(sweep, IdOf(h))
    /\ UNCHANGED <<db, hasClient, session, genVars, lifeVars>>

\* Session::clear emptying every session of the store.
SessionClear_AllSessions(h) ==
    /\ IsSession(h)
    /\ cache' = [id \in DOMAIN StoreLookup(cache, IdOf(h)) |->
                    [StoreLookup(cache, IdOf(h))[id] EXCEPT !.entries = <<>>]]
    /\ lastOp' = Op("clear", h, "k", "int", None)
    /\ written' = [written EXCEPT ![IdOf(h)] = [k \in Keys |-> None]]
    /\ sweep' = Seen(sweep, IdOf(h))
    /\ UNCHANGED <<db, hasClient, session, genVars, taken, lifeVars>>

\* Session::clear
SessionClear(h) ==
    /\ IsSession(h)
    /\ cache' = StoreClear(cache, IdOf(h))
    /\ lastOp' = Op("clear", h, "k", "int", None)
    /\ written' = [written EXCEPT ![IdOf(h)] = [k \in Keys |-> None]]
    /\ sweep' = Seen(sweep, IdOf(h))
    /\ UNCHANGED <<db, hasClient, session, genVars, taken, lifeVars>>

NextData ==
    \/ \E h \in Handles, key \in Keys, T \in Types : SessionGet(h, key, T)
    \/ \E h \in Handles, key \in Keys, T \in Types : ReadOnlyGet(h, key, T)
    \/ \E h \in Handles, key \in Keys, v \in Values : SessionSet(h, key, v)
    \/ \E h \in Handles, key \in Keys : SessionRemove(h, key)
    \/ \E h \in Handles, key \in Keys, T \in Types : SessionGetRemove(h, key, T)
    \/ \E h \in Handles : SessionClear(h)

SpecData == InitData /\ [][NextData]_vars

\* ------------------------------------------------ the lifecycle operations
\* What renew leaves in the ghost state: what was recorded for the old id is
\* recorded for the new one.
Moved(f, old, new, v) == [f EXCEPT ![new] = f[old], ![old] = v]

\* The part of a renewal shared by Session::renew and its variants: the store
\* allocates an id that neither the cache nor the table holds, moves the
\* SessionData to it and schedules the deletion of the old id's record.
RenewVia(h, new) ==
    /\ new \in FreeIds(StoreLookup(cache, IdOf(h)), db)
    /\ cache' = StoreRenew(cache, IdOf(h), new)
    /\ pendingDel' = IF hasClient THEN pendingDel \cup {IdOf(h)} ELSE pendingDel
    /\ lastOp' = Op("renew", h, "k", "int", None)
    /\ written' = Moved(written, IdOf(h), new, NoValues)
    /\ taken' = Moved(taken, IdOf(h), new, NoneTaken)
    /\ req' = Moved(req, IdOf(h), new, NoReq)
    /\ sweep' = Seen(Seen(sweep, IdOf(h)), new)
    /\ UNCHANGED <<db, hasClient, genVars>>

\* Session::renew forwarding to the store's destroy.
SessionRenew_AsDestroy(h) ==
    /\ IsSession(h)
    /\ cache' = StoreDestroy(cache, IdOf(h))
    /\ lastOp' = Op("renew", h, "k", "int", None)
    /\ sweep' = Seen(sweep, IdOf(h))
    /\ UNCHANGED <<db, hasClient, session, genVars, written, taken, lifeVars>>

\* Session::renew storing the new id in the handle.
SessionRenew_Rebind(h) ==
    /\ IsSession(h)
    /\ \E new \in IdStrs :
          /\ RenewVia(h, new)
          /\ session' = [session EXCEPT ![h] = Some([id |-> Unwrap(ParseStr(new)), readonly |-> FALSE])]

\* Session::renew: it takes &self and returns nothing; the handle keeps its id.
SessionRenew(h) ==
    /\ IsSession(h)
    /\ \E new \in IdStrs : RenewVia(h, new)
    /\ UNCHANGED session

\* Session::destroy forwarding to the store's clear_session_data.
SessionDestroy_AsClear(h) ==
    /\ IsSession(h)
    /\ cache' = StoreClear(cache, IdOf(h))
    /\ lastOp' = Op("destroy", h, "k", "int", None)
    /\ req' = [req EXCEPT ![IdOf(h)].destroy = TRUE]
    /\ sweep' = Seen(sweep, IdOf(h))
    /\ UNCHANGED <<db, hasClient, session, genVars, written, taken, pendingDel>>

\* Session::destroy that only looks the session up.
SessionDestroy_Unmarked(h) ==
    /\ IsSession(h)
    /\ cache' = StoreLookup(cache, IdOf(h))
    /\ lastOp' = Op("destroy", h, "k", "int", None)
    /\ req' = [req EXCEPT ![IdOf(h)].destroy = TRUE]
    /\ sweep' = Seen(sweep, IdOf(h))
    /\ UNCHANGED <<db, hasClient, session, genVars, written, taken, pendingDel>>

\* Session::destroy
SessionDestroy(h) ==
    /\ IsSession(h)
    /\ cache' = StoreDestroy(cache, IdOf(h))
    /\ lastOp' = Op("destroy", h, "k", "int", None)
    /\ req' = [req EXCEPT ![IdOf(h)].destroy = TRUE]
    /\ sweep' = Seen(sweep, IdOf(h))
    /\ UNCHANGED <<db, hasClient, session, genVars, written, taken, pendingDel>>

\* Session::set_longterm
SessionSetLongterm(h, longterm) ==
    /\ IsSession(h)
    /\ cache' = StoreSetLongterm(cache, IdOf(h), longterm)
    /\ lastOp' = Op("set_longterm", h, "k", "int", None)
    /\ sweep' = Seen(sweep, IdOf(h))
    /\ UNCHANGED <<db, hasClient, session, genVars, written, taken, lifeVars>>

\* Session::set_store passing the opposite of its argument.
SessionSetStore_Negated(h, storable) ==
    /\ IsSession(h)
    /\ cache' = StoreSetStore(cache, IdOf(h), ~storable)
    /\ lastOp' = Op("set_store", h, "k", "int", None)
    /\ req' = [req EXCEPT ![IdOf(h)].storable = storable]
    /\ sweep' = Seen(sweep, IdOf(h))
    /\ UNCHANGED <<db, hasClient, session, genVars, written, taken, pendingDel>>

\* Session::set_store
SessionSetStore(h, storable) ==
    /\ IsSession(h)
    /\ cache' = StoreSetStore(cache, IdOf(h), storable)
    /\ lastOp' = Op("set_store", h, "k", "int", None)
    /\ req' = [req EXCEPT ![IdOf(h)].storable = storable]
    /\ sweep' = Seen(sweep, IdOf(h))
    /\ UNCHANGED <<db, hasClient, session, genVars, written, taken, pendingDel>>

\* The part of a count shared by Session::count and ReadOnlySession::count.
CountVia(h, client) ==
    /\ lastOp' = Op("count", h, "k", "int", Some(IntVal(CountSessions(cache, db, client))))
    /\ UNCHANGED <<cache, db, hasClient, session, genVars, written, taken, sweep, lifeVars>>

\* Session::count counting the cache whether or not a backend is configured.
SessionCount_NoBackend(h) ==
    /\ IsSession(h)
    /\ CountVia(h, FALSE)

\* Session::count
SessionCount(h) ==
    /\ IsSession(h)
    /\ CountVia(h, hasClient)

\* ReadOnlySession::count
ReadOnlyCount(h) ==
    /\ IsReadOnly(h)
    /\ CountVia(h, hasClient)

\* Session::get_session_id
GetSessionId(h) == Unwrap(session[h]).id

\* ------------------------------------------------- time and the sweep
\* A step of the environment, as the latest thing that happened.
Env(op) == [NoOp EXCEPT !.op = op]

\* The lifespan of a session runs out.
Expire(id) ==
    /\ id \in DOMAIN cache
    /\ ~cache[id].expired
    /\ cache' = [cache EXCEPT ![id].expired = TRUE]
    /\ lastOp' = Env("expire")
    /\ UNCHANGED <<db, hasClient, session, genVars, written, taken, sweep, lifeVars>>

\* The sweep of the candidates given: its first step chooses them.
SelectVia(cands) ==
    /\ sweep.phase = "idle"
    /\ sweep' = [phase |-> "purging", cand |-> cands, touched |-> {}, purged |-> {}]
    /\ lastOp' = Env("select")
    /\ UNCHANGED <<cache, db, hasClient, session, genVars, written, taken, lifeVars>>

\* A sweep that purges the sessions to be destroyed only.
SweepSelect_DestroyOnly ==
    SelectVia({i \in DOMAIN cache : cache[i].destroy})

\* The sweep starts: it chooses the sessions to purge.
SweepSelect ==
    SelectVia(PurgeCandidates(cache))

\* The purge of a candidate: the session leaves the cache and its record the
\* table.
PurgeVia(id) ==
    /\ cache' = Del(cache, id)
    /\ db' = Del(db, id)
    /\ written' = Forget(written, id, NoValues)
    /\ taken' = Forget(taken, id, NoneTaken)
    /\ req' = Forget(req, id, NoReq)
    /\ sweep' = [sweep EXCEPT !.cand = @ \ {id}, !.purged = @ \cup {id}]

\* A sweep that purges its candidates without consulting the marker.
SweepPurge_IgnoringMarker(id) ==
    /\ sweep.phase = "purging"
    /\ id \in sweep.cand
    /\ PurgeVia(id)
    /\ lastOp' = Env("purge")
    /\ UNCHANGED <<hasClient, session, genVars, pendingDel>>

\* The sweep examines a candidate: one accessed since the sweep chose it is
\* kept, any other is purged.
SweepPurge(id) ==
    /\ sweep.phase = "purging"
    /\ id \in sweep.cand
    /\ IF id \in sweep.touched
       THEN /\ sweep' = [sweep EXCEPT !.cand = @ \ {id}]
            /\ UNCHANGED <<cache, db, written, taken, req>>
       ELSE PurgeVia(id)
    /\ lastOp' = Env("purge")
    /\ UNCHANGED <<hasClient, session, genVars, pendingDel>>

\* The sweep ends: it reconciles the table with the cache.
SweepEnd ==
    /\ sweep.phase = "purging"
    /\ sweep.cand = {}
    /\ db' = IF hasClient THEN Reconciled(cache, db, pendingDel) ELSE db
    /\ pendingDel' = {}
    /\ sweep' = [sweep EXCEPT !.phase = "idle", !.touched = {}]
    /\ lastOp' = Env("sweep")
    /\ UNCHANGED <<cache, hasClient, session, genVars, written, taken, req>>

\* The store once two requests have their handles, under different ids, with
\* or without a backend; t1's Session has been cloned and converted.
InitLife ==
    /\ hasClient \in BOOLEAN
    /\ cache = <<>>
    /\ db = <<>>
    /\ seeded = {}
    /\ pc = [t \in Tasks |-> "done"]
    /\ cookie = [t \in Tasks |-> None]
    /\ token = [t \in Tasks |-> None]
    /\ existsRes = [t \in Tasks |-> "none"]
    /\ ret = [t \in Tasks |-> None]
    /\ hist = [t \in Tasks |-> NoHist]
    /\ \E u1 \in Uuids :
          /\ \A u \in Uuids : u <= u1
          /\ LET s1 == [id |-> u1, readonly |-> FALSE]
             IN  session = [h \in Handles |->
                               IF h = "t1" THEN Some(s1)
                               ELSE IF h = "t1c" THEN Some(s1)
                               ELSE IF h = "t1r" THEN Some(ReadOnlyFrom(s1))
                               ELSE Some([id |-> u1 - 1, readonly |-> FALSE])]
    /\ lastOp = NoOp
    /\ written = [i \in IdStrs |-> NoValues]
    /\ taken = [i \in IdStrs |-> NoneTaken]
    /\ sweep = IdleSweep
    /\ pendingDel = {}
    /\ req = [i \in IdStrs |-> NoReq]

\* The handles' calls with one key and one value: data, renewal and
\* destruction, and the sweep.
NextLife ==
    \/ \E h \in Tasks : SessionGet(h, "k", "int")
    \/ \E h \in Tasks : SessionSet(h, "k", IntVal(5))
    \/ \E h \in Tasks : SessionRenew(h)
    \/ \E h \in Tasks : SessionDestroy(h)
    \/ SweepSelect
    \/ \E id \in IdStrs : SweepPurge(id)
    \/ SweepEnd

SpecLife == InitLife /\ [][NextLife]_vars

\* The handles' calls with one key and one value: data, the storable flag and
\* the count, through a Session and a ReadOnlySession, time and the sweep.
NextSweep ==
    \/ \E h \in Tasks : SessionGet(h, "k", "int")
    \/ \E h \in Handles : ReadOnlyGet(h, "k", "int")
    \/ \E h \in Tasks : SessionSet(h, "k", IntVal(5))
    \/ \E h \in Tasks, b \in BOOLEAN : SessionSetStore(h, b)
    \/ \E h \in Tasks : SessionCount(h)
    \/ \E h \in Handles : ReadOnlyCount(h)
    \/ \E id \in IdStrs : Expire(id)
    \/ SweepSelect
    \/ \E id \in IdStrs : SweepPurge(id)
    \/ SweepEnd

SpecSweep == InitLife /\ [][NextSweep]_vars

\* The handles' calls that create, mark and count sessions, time and the
\* sweep.
NextCount ==
    \/ \E h \in Tasks : SessionGet(h, "k", "int")
    \/ \E h \in Tasks : SessionDestroy(h)
    \/ \E h \in Tasks : SessionCount(h)
    \/ \E h \in Handles : ReadOnlyCount(h)
    \/ \E id \in IdStrs : Expire(id)
    \/ SweepSelect
    \/ \E id \in IdStrs : SweepPurge(id)
    \/ SweepEnd

SpecCount == InitLife /\ [][NextCount]_vars

\* The data and lifecycle calls of two requests whose handles hold different
\* ids, with one key and one value.
NextFrame ==
    \/ \E h \in Tasks : SessionSet(h, "k", IntVal(5))
    \/ \E h \in Tasks : SessionRemove(h, "k")
    \/ \E h \in Tasks : SessionGetRemove(h, "k", "int")
    \/ \E h \in Tasks : SessionClear(h)
    \/ \E h \in Tasks : SessionDestroy(h)
    \/ \E h \in Tasks, b \in BOOLEAN : SessionSetLongterm(h, b)
    \/ \E h \in Tasks, b \in BOOLEAN : SessionSetStore(h, b)

SpecFrame == InitLife /\ [][NextFrame]_vars

\* ------------------------------------------------- claims on id generation

\* The tasks whose call of Session::new is over, one way or another.
Ended(t) == pc[t] \in {"done", "panicked", "cancelled"}

\* C1: the ids the concurrent generate_uuid calls return are pairwise
\* distinct, and none of them is an id the cache or the table was seeded with.
C1_ReturnedIdsDistinct ==
    \A t \in Tasks :
        IsSome(ret[t]) =>
            /\ Inner(Unwrap(ret[t])) \notin seeded
            /\ \A o \in Tasks \ {t} : ret[o] # ret[t]

\* C2: at the step in which generate_uuid returns an id, that id is a key of
\* neither the cache nor, with a client configured, the table.
C2_AbsentAtReturn ==
    [][\A t \in Tasks :
          (pc[t] # "returned" /\ pc'[t] = "returned") =>
              /\ Inner(Unwrap(ret'[t])) \notin DOMAIN cache'
              /\ hasClient => Inner(Unwrap(ret'[t])) \notin DOMAIN db']_vars

\* C3: a generation attempt whose existence check failed or was cancelled
\* returns no id and builds no handle; with a client configured, an id is
\* returned only after the table answered that it does not hold it.
C3_NoIdWithoutConfirmation ==
    \A t \in Tasks :
        /\ pc[t] \in {"panicked", "cancelled"} => ret[t] = None /\ session[t] = None
        /\ existsRes[t] = "err" => ret[t] = None /\ session[t] = None
        /\ (IsSome(ret[t]) /\ hasClient) => existsRes[t] = "ok_false"

\* C3 witness: one attempt ended on a failed check while another was
\* cancelled after the backend had answered.
C3_Witness ==
    \E t \in Tasks, o \in Tasks :
        /\ pc[t] = "panicked" /\ existsRes[t] = "err"
        /\ pc[o] = "cancelled" /\ existsRes[o] # "none"

C5_GenerationTerminates ==
    (IdStrs \subseteq (DOMAIN cache \cup DOMAIN db)) => <>(\A t \in Tasks : Ended(t))

\* C6: a finished Session::new whose cookie parsed is bound to exactly the
\* parsed id, having neither generated an id nor looked one up in the cache
\* or the table; one whose cookie was absent or did not parse is bound to the
\* id generate_uuid returned.
C6_Resolution ==
    \A t \in Tasks :
        pc[t] = "done" =>
            LET value == IF IsSome(cookie[t]) THEN ParseStr(Unwrap(cookie[t])) ELSE None
            IN  IF IsSome(value)
                THEN /\ Unwrap(session[t]).id = Unwrap(value)
                     /\ ~hist[t].generated
                     /\ ~hist[t].checked
                     /\ ret[t] = None
                ELSE /\ hist[t].generated
                     /\ IsSome(ret[t])
                     /\ Unwrap(session[t]).id = Unwrap(ret[t])

\* C6 witness: one request presented an id, in upper case, that neither the
\* cache nor the table holds and got a handle for it; another presented text
\* that is no id and got a generated one.
C6_Witness ==
    \E t \in Tasks, o \in Tasks :
        /\ pc[t] = "done" /\ IsSome(cookie[t]) /\ ~hist[t].generated
        /\ Unwrap(cookie[t]) # ToString(Unwrap(session[t]).id)
        /\ Inner(Unwrap(session[t]).id) \notin (DOMAIN cache \cup DOMAIN db)
        /\ pc[o] = "done" /\ IsSome(cookie[o]) /\ hist[o].generated

\* ---------------------------------------------- claims on data operations

\* The id and key of the operation just performed.
OpId == IdOf(lastOp.h)

\* C7: a get through any handle bound to an id, asking for the shape of the
\* value last set under that id and key and not removed since, returns that
\* value.
C7_RoundTrip ==
    lastOp.op = "get" =>
        LET w == written[OpId][lastOp.key]
        IN  (IsSome(w) /\ Unwrap(w).t = lastOp.ty) => lastOp.res = w

\* C7 witness: the read-only handle has just read a value, which only
\* another handle bound to the same id can have set.
C7_Witness ==
    /\ lastOp.op = "get"
    /\ lastOp.h = "t1r"
    /\ IsSome(lastOp.res)

\* C8: a get_remove of a key that was set returns the value set (when asked
\* for in its shape), after it a get of the key returns absent whatever the
\* shape asked for, and every other key of the session is as it was.
C8_GetRemoveReturnsAndDeletes ==
    [][lastOp'.op = "get_remove" =>
          LET id == IdOf(lastOp'.h)
              k == lastOp'.key
              w == written[id][k]
          IN  /\ (IsSome(w) /\ Unwrap(w).t = lastOp'.ty) => lastOp'.res = w
              /\ \A T \in Types : StoreGetResult(cache', id, k, T) = None
              /\ \A j \in Keys \ {k} :
                    /\ (j \in DOMAIN Entries(cache', id)) = (j \in DOMAIN Entries(cache, id))
                    /\ j \in DOMAIN Entries(cache, id) =>
                           Entries(cache', id)[j] = Entries(cache, id)[j]]_vars

\* C8 witness: a get_remove has just returned a value while the session's
\* other key still holds one.
C8_Witness ==
    /\ lastOp.op = "get_remove"
    /\ IsSome(lastOp.res)
    /\ \E j \in Keys \ {lastOp.key} : j \in DOMAIN Entries(cache, OpId)

\* C9: a get_remove returns the decoding of exactly the entry it deletes, as
\* the cache held it when the call was made, and deletes nothing else; of
\* the get_remove calls made on a key since it was last set, at most one
\* returns a value.
C9_GetRemoveAtomic ==
    /\ [](\A i \in IdStrs, k \in Keys : taken[i][k] <= 1)
    /\ [][lastOp'.op = "get_remove" =>
            LET id == IdOf(lastOp'.h)
                k == lastOp'.key
                e == Entries(cache, id)
            IN  /\ lastOp'.res = (IF k \in DOMAIN e THEN Decode(lastOp'.ty, e[k]) ELSE None)
                /\ Entries(cache', id) = Del(e, k)]_vars

\* C9 witness: after one get_remove took the value of a key, a get_remove
\* through the cloned handle has just found nothing.
C9_Witness ==
    /\ lastOp.op = "get_remove"
    /\ lastOp.h = "t1c"
    /\ lastOp.res = None
    /\ taken[OpId][lastOp.key] = 1

\* C10: a get returns an Option, absent when the key is missing and when the
\* stored text has not the shape asked for; it leaves every entry of the
\* session in place, so that after a mismatch a get asking for the shape of
\* the stored value still returns it.
C10_GetNeverFails ==
    [][lastOp'.op = "get" =>
          LET id == IdOf(lastOp'.h)
              k == lastOp'.key
              e == Entries(cache, id)
          IN  /\ lastOp'.res \in {None} \cup {Some(v) : v \in Values}
              /\ k \notin DOMAIN e => lastOp'.res = None
              /\ Entries(cache', id) = e
              /\ (k \in DOMAIN e /\ Decode(lastOp'.ty, e[k]) = None) =>
                    /\ lastOp'.res = None
                    /\ IsSome(written[id][k])
                    /\ StoreGetResult(cache', id, k, Unwrap(written[id][k]).t) = written[id][k]]_vars

\* C10 witness: a get has just returned absent for a key whose stored text
\* has another shape than the one asked for.
C10_Witness ==
    /\ lastOp.op = "get"
    /\ lastOp.res = None
    /\ lastOp.key \in DOMAIN Entries(cache, OpId)
    /\ Decode(lastOp.ty, Entries(cache, OpId)[lastOp.key]) = None

\* ------------------------------------------------ claims on the lifecycle

\* The id a step's operation was called on.
IdOfOp(op) == IdOf(op.h)

C12_DestroyDeferred ==
    \A id \in IdStrs :
        req[id].destroy =>
            /\ id \in DOMAIN cache
            /\ cache[id].destroy
            /\ StoreGetResult(cache, id, "k", "int") = written[id]["k"]
            /\ (lastOp.op = "get" /\ OpId = id) => lastOp.res = written[id]["k"]

\* t1 has set a value and destroyed its session; the get that follows returns
\* the value.
C12_Witness ==
    /\ lastOp = Op("get", "t1", "k", "int", Some(IntVal(5)))
    /\ req[IdOf("t1")].destroy
    /\ cache[IdOf("t1")].destroy

\* C13: the sweep that follows a destroy chooses the session; unless the
\* session was accessed since, examining it removes it from the cache and its
\* record from the table; the sweep ends only when every session it chose has
\* been examined; and a get on an id no session is under creates an empty
\* session and returns nothing.
C13_DestroyAtReconciliation ==
    /\ [][lastOp'.op = "select" =>
            \A id \in DOMAIN cache : req[id].destroy => id \in sweep'.cand]_vars
    /\ [][lastOp'.op = "purge" =>
            \A id \in sweep.cand \ (sweep'.cand \cup sweep.touched) :
                /\ id \notin DOMAIN cache'
                /\ id \notin DOMAIN db'
                /\ written'[id] = NoValues]_vars
    /\ [][lastOp'.op = "sweep" => sweep.cand = {}]_vars
    /\ [][(lastOp'.op = "get" /\ IdOfOp(lastOp') \notin DOMAIN cache) =>
            /\ lastOp'.res = None
            /\ cache'[IdOfOp(lastOp')] = EmptyData]_vars

\* t1's session had a record in the table, was destroyed and purged by the
\* latest sweep; the get that follows finds an empty session and no record.
C13_Witness ==
    /\ lastOp = Op("get", "t1", "k", "int", None)
    /\ hasClient
    /\ sweep.phase = "idle"
    /\ IdOf("t1") \in sweep.purged
    /\ cache[IdOf("t1")] = EmptyData
    /\ IdOf("t1") \notin DOMAIN db

\* The id each handle was built with.
BoundId(h) ==
    LET first == CHOOSE u \in Uuids : \A v \in Uuids : v <= u
    IN  IF h = "t2" THEN first - 1 ELSE first

\* C20: whatever the handles have done, renewals included, every handle
\* reports the id it was built with, and so do its clone and its read-only
\* conversion.
C20_HandleKeepsId ==
    \A h \in Handles :
        /\ IsSome(session[h])
        /\ GetSessionId(h) = BoundId(h)

\* t1 has set a value, a sweep has written it, and t1 has renewed its session:
\* the data is under the new id, and the get t1 makes next is routed to the
\* old id, where it creates an empty session and finds nothing.
C20_Witness ==
    /\ lastOp = Op("get", "t1", "k", "int", None)
    /\ IdOf("t1") \in pendingDel
    /\ IdOf("t1") \in DOMAIN db
    /\ "k" \in DOMAIN db[IdOf("t1")].entries
    /\ cache[IdOf("t1")] = EmptyData
    /\ written[IdOf("t2")]["k"] = Some(IntVal(5))
    /\ GetSessionId("t1") = BoundId("t1")

\* C15: a count returns the number of records of the table when a backend is
\* configured, whatever the cache holds, and the number of sessions of the
\* cache that are neither expired nor marked for destruction when none is.
C15_Count ==
    lastOp.op = "count" =>
        lastOp.res =
            Some(IntVal(IF hasClient
                        THEN Cardinality(DOMAIN db)
                        ELSE Cardinality({id \in DOMAIN cache :
                                            ~cache[id].expired /\ ~cache[id].destroy})))

\* With a backend, a count returns the one record of the table while the cache
\* holds two sessions, neither expired nor marked.
C15_Witness ==
    /\ lastOp.op = "count"
    /\ hasClient
    /\ lastOp.res = Some(IntVal(1))
    /\ Cardinality(Live(cache)) = 2

\* C14: when a sweep ends, the table holds no record of a session set_store
\* made not storable, and the cache still holds its data; with a backend, the
\* table holds a record equal to the cached data of every session that is
\* storable, not expired and not marked for destruction; and no step writes
\* the record of a session that is not storable.
C14_StorableToggle ==
    /\ [](lastOp.op = "sweep" =>
            \A id \in DOMAIN cache :
                /\ ~req[id].storable =>
                      /\ id \notin DOMAIN db
                      /\ StoreGetResult(cache, id, "k", "int") = written[id]["k"]
                /\ (hasClient /\ req[id].storable /\ id \in Live(cache)) =>
                      /\ id \in DOMAIN db
                      /\ db[id].entries = cache[id].entries)
    /\ [][\A id \in DOMAIN db' :
            (id \notin DOMAIN db \/ db'[id] # db[id]) => req[id].storable]_vars

\* A sweep has ended: t1's session, not storable, holds a value and has no
\* record; t2's session, storable, has a record with its value.
C14_Witness ==
    /\ lastOp.op = "sweep"
    /\ hasClient
    /\ ~req[IdOf("t1")].storable
    /\ written[IdOf("t1")]["k"] = Some(IntVal(5))
    /\ IdOf("t1") \in DOMAIN cache
    /\ IdOf("t1") \notin DOMAIN db
    /\ req[IdOf("t2")].storable
    /\ IdOf("t2") \in DOMAIN db
    /\ "k" \in DOMAIN db[IdOf("t2")].entries

\* C16: a sweep chooses every session whose lifespan is over; unless the
\* session was accessed since, examining it removes it from what a count
\* counts, cache and table, and leaves nothing a get on its id could return.
C16_ExpirySweep ==
    /\ [][lastOp'.op = "select" =>
            \A id \in DOMAIN cache : cache[id].expired => id \in sweep'.cand]_vars
    /\ [][lastOp'.op = "purge" =>
            \A id \in sweep.cand \ sweep'.cand :
                id \notin sweep.touched =>
                    /\ id \in sweep'.purged
                    /\ id \notin Live(cache')
                    /\ id \notin DOMAIN db'
                    /\ StoreGetResult(cache', id, "k", "int") = None
                    /\ written'[id]["k"] = None]_vars
    /\ [](lastOp.op = "get" /\ written[OpId]["k"] = None => lastOp.res = None)

\* Without a backend, t1's session expired and the latest sweep purged it:
\* the count that follows returns 0 and a get on its id would return nothing.
C16_Witness ==
    /\ lastOp.op = "count"
    /\ lastOp.res = Some(IntVal(0))
    /\ ~hasClient
    /\ sweep.phase = "idle"
    /\ IdOf("t1") \in sweep.purged
    /\ StoreGetResult(cache, IdOf("t1"), "k", "int") = None

\* The step is a call through a ReadOnlySession.
ReadOnlyStep == lastOp'.op \in {"get", "count"} /\ IsReadOnly(lastOp'.h)

\* C17 as stated: no call through a ReadOnlySession changes the cache or the
\* table.
C17_ReadOnlyChangesNothing ==
    [][ReadOnlyStep => cache' = cache /\ db' = db]_vars

\* C17: a call through a ReadOnlySession leaves the table and every session
\* of the cache as they are; the one change it can make to the cache is the
\* empty SessionData a get creates under the handle's id when the cache holds
\* no session for it.
C17_ReadOnlyKeepsSessions ==
    [][ReadOnlyStep =>
          /\ db' = db
          /\ \A id \in DOMAIN cache : id \in DOMAIN cache' /\ cache'[id] = cache[id]
          /\ \A id \in DOMAIN cache' \ DOMAIN cache :
                /\ lastOp'.op = "get"
                /\ id = IdOfOp(lastOp')
                /\ cache'[id] = EmptyData]_vars

\* A get through t1r, on an id the cache already holds a value for, has
\* returned the value and the session still holds it.
C17_Witness ==
    /\ lastOp = Op("get", "t1r", "k", "int", Some(IntVal(5)))
    /\ StoreGetResult(cache, IdOf("t1r"), "k", "int") = Some(IntVal(5))

\* C19: a sweep never purges a session accessed since the sweep chose it:
\* examining it leaves the session, its data and its record as they are.
C19_SweepKeepsTouched ==
    /\ [](sweep.touched \cap sweep.purged = {})
    /\ [][lastOp'.op = "purge" =>
            \A id \in sweep.touched \cap DOMAIN cache :
                /\ id \in DOMAIN cache'
                /\ cache'[id] = cache[id]
                /\ written'[id] = written[id]
                /\ id \in DOMAIN db => id \in DOMAIN db']_vars

\* The sweep chose t1's expired session, a call then accessed it, and the
\* sweep has examined it: the session is in the cache with the value set.
C19_Witness ==
    /\ lastOp.op = "purge"
    /\ sweep.phase = "purging"
    /\ IdOf("t1") \in sweep.touched
    /\ IdOf("t1") \notin sweep.cand
    /\ IdOf("t1") \in DOMAIN cache
    /\ cache[IdOf("t1")].expired
    /\ StoreGetResult(cache, IdOf("t1"), "k", "int") = Some(IntVal(5))

\* The data and lifecycle operations of a Session.
FrameOps ==
    {"set", "remove", "get_remove", "clear", "destroy", "set_longterm", "set_store"}

\* C18: a data or lifecycle operation called on one id leaves every session
\* under another id as it is: its entries, its expiry and its flags.
C18_OtherSessionsUnchanged ==
    [][lastOp'.op \in FrameOps =>
          \A id \in DOMAIN cache \ {IdOfOp(lastOp')} :
              /\ id \in DOMAIN cache'
              /\ cache'[id] = cache[id]
              /\ written'[id] = written[id]]_vars

\* t1 has cleared its session while t2's holds a value and has every flag
\* changed from its default: t2's session is as t2 left it.
C18_Witness ==
    /\ lastOp.op = "clear"
    /\ lastOp.h = "t1"
    /\ IdOf("t2") \in DOMAIN cache
    /\ IdOf("t2") # IdOf("t1")
    /\ cache[IdOf("t2")].longterm
    /\ cache[IdOf("t2")].destroy
    /\ ~cache[IdOf("t2")].storable
    /\ StoreGetResult(cache, IdOf("t2"), "k", "int") = Some(IntVal(5))

====
